---- MODULE Spec2Model ----
(***************************************************************************)
(* Model of app/grants/management/commands/round8_payouts.py, the          *)
(* set_payouts / set_payouts_test branch of Command.handle: the payout     *)
(* list is chunked, each chunk is built, signed and broadcast with a retry *)
(* loop, confirmed by polling, and the match records are updated last.     *)
(*                                                                         *)
(* Matches are named by their rank in order_by('amount'): match 1 has the  *)
(* smallest amount.  A payout entry is named by the match it was built     *)
(* from.  Gas prices are wei amounts kept as two limbs in base 10^8        *)
(* (hi * 10^8 + lo), since they exceed 32-bit integers.                    *)
(***************************************************************************)
EXTENDS Integers, Sequences, FiniteSets, TLC

VARIABLES
    pc,                    \* position of the single thread of control
    what, network,         \* lines 83-84: the command's arguments
    answers,               \* what the operator typed at each input() so far
    payout_tx,             \* store: match -> payout_tx / test_payout_tx field
    ready,                 \* store: matches with ready_for_(test_)payout set
    writes,                \* how often another writer has changed the store
    full_payouts_mapping,  \* line 209
    chunk_i,               \* position of range(0, len(lst), n) inside chunks()
    payout_mapping,        \* the loop variable of line 232
    tx_args,               \* line 234
    signed,                \* line 241: the signed transaction
    tx_id, success, counter, \* lines 243-245
    err,                   \* the exception e of line 250, unbound after the handler
    txCount,               \* chain node: transaction count of from_address
    chunk_no,              \* observer: how many chunks chunks() has yielded
    hist,                  \* observer: transactions signed for this chunk
    oracle_calls,          \* observer: oracle calls made for this chunk
    contributions,         \* the Contribution rows the update creates
    trace,                 \* observer: sign / send / sleep events of this chunk
    built, accepted, mined, \* observer: chunks built / accepted / reported mined
    ck_lst, ck_n, ck_i, ck_out,  \* chunks() run on its own
    payout_added_logs,     \* line 366: the PayoutAdded logs the filter returns
    payment_dict,          \* line 378
    user_block_dict,       \* line 379
    total_dai_required     \* line 399

(* the locals of the verify branch *)
verifyVars == << payout_added_logs, payment_dict, user_block_dict, total_dai_required >>

vars == << pc, what, network, answers, payout_tx, ready, writes,
           full_payouts_mapping, chunk_i, payout_mapping, tx_args,
           signed, tx_id, success, counter, err, txCount, chunk_no, hist, trace,
           oracle_calls, contributions, built, accepted, mined, ck_lst, ck_n, ck_i, ck_out,
           verifyVars >>

mainVars == << pc, what, network, answers, payout_tx, ready, writes,
               full_payouts_mapping, chunk_i, payout_mapping, tx_args,
               signed, tx_id, success, counter, err, txCount, chunk_no, hist, trace,
               oracle_calls, contributions, built, accepted, mined >>

(* the arguments and the operator's answers *)
gateVars == << what, network, answers >>

(* everything the checks and prompts before the payout list leave alone *)
gateFrame == << payout_tx, ready, writes, full_payouts_mapping, chunk_i, payout_mapping,
                tx_args, signed, tx_id, success, counter, err, txCount, chunk_no, hist,
                trace, oracle_calls, contributions, built, accepted, mined, ck_lst, ck_n,
                ck_i, ck_out, verifyVars >>

ckVars == << ck_lst, ck_n, ck_i, ck_out >>

(* ------------------------------ bounds -------------------------------- *)
MaxChunks == 3      \* payout lists of up to this many chunks
MaxRetries == 2     \* transient rejections per chunk
MaxGwei == 2        \* the oracle answers 1..MaxGwei gwei
MaxCount == 1       \* the account's transaction count runs 0..MaxCount
MaxLen == 5         \* chunks() alone: list lengths 0..MaxLen
MaxN == 3           \* chunks() alone: chunk sizes 1..MaxN
MaxVal == 2         \* chunks() alone: list entries 1..MaxVal
MaxNotReady == 1    \* matches in the store that are not ready for payout
MaxWrites == 1      \* changes another writer makes to the store during a run

(* ------------------------- program constants -------------------------- *)
ChunkSize == 120
GasLimit == 8000000
WAIT_TIME_BETWEEN_TXS == 15

Min(a, b) == IF a < b THEN a ELSE b

Last(q) == q[Len(q)]

(* a slice one entry short: lst[i:i + n - 1] *)
SliceShort(lst, i, n) == SubSeq(lst, i + 1, Min(i + n - 1, Len(lst)))

(* lst[i:i + n] of line 225, on a 1-based sequence *)
Slice(lst, i, n) == SubSeq(lst, i + 1, Min(i + n, Len(lst)))

(* ----------------------------- gas price ------------------------------ *)
Limb == 100000000

RECURSIVE Pow2Floor(_)
Pow2Floor(m) == IF m < 2 THEN 1 ELSE 2 * Pow2Floor(m \div 2)

(* float(g) * 10**9 * 1.4 in IEEE doubles: the double 1.4 is 0.4 * 2^-52     *)
(* below 1.4, so the product rounds to one ulp below the integer             *)
(* 14 * g * 10^8 exactly when that integer's significand exceeds 1.75, and   *)
(* int() then truncates to the integer below.  14 * g * 10^8 is              *)
(* g * 5468750 * 2^8, which has the significand of g * 5468750.              *)
RoundsBelow14(g) == 4 * (g * 5468750) > 7 * Pow2Floor(g * 5468750)

(* line 237: int(float(recommend...(1)) * 10**9 * 1.4) *)
InitialGasPrice(g) ==
    IF RoundsBelow14(g) THEN [hi |-> 14 * g - 1, lo |-> Limb - 1]
                        ELSE [hi |-> 14 * g, lo |-> 0]

(* line 257: int(float(recommend...(1)) * 10**9 * 1.6); the double 1.6 is   *)
(* above 1.6, so the product never falls below the integer 16 * g * 10^8    *)
BumpedGasPrice(g) == [hi |-> 16 * g, lo |-> 0]

PriceLT(p, q) == p.hi < q.hi \/ (p.hi = q.hi /\ p.lo < q.lo)
PriceLE(p, q) == p = q \/ PriceLT(p, q)

ZeroPrice == [hi |-> 0, lo |-> 0]

(* ------------------------------ values -------------------------------- *)
Gwei == 1..MaxGwei

(* None (line 243) and the empty payout_tx field of an unpaid match: the   *)
(* hash of no content                                                       *)
NoTx == [n |-> 0]

NoArgs == [nonce |-> 0, gas |-> 0, gasPrice |-> ZeroPrice]
NoSigned == [nonce |-> 0, gas |-> 0, gasPrice |-> ZeroPrice, data |-> << >>]
NoErr == [underpriced |-> FALSE, nonce_low |-> FALSE]

(* the exception of a rejected broadcast, by the two substrings tested *)
Errors == [underpriced : BOOLEAN, nonce_low : BOOLEAN]

(* a gas limit estimated from the size of the chunk *)
SignTxGasPerEntry(data, args) ==
    [nonce |-> args.nonce, gas |-> 60000 * Len(data), gasPrice |-> args.gasPrice,
     data |-> data]

(* buildTransaction + signTransaction, lines 240-241 *)
SignTx(data, args) ==
    [nonce |-> args.nonce, gas |-> args.gas, gasPrice |-> args.gasPrice, data |-> data]

(* the hash sendRawTransaction returns: one value per signed content *)
TxHash(s) ==
    [data0 |-> s.data[1], n |-> Len(s.data), nonce |-> s.nonce, gasPrice |-> s.gasPrice]

(* how many unpaid matches the run finds: none, one full chunk, or          *)
(* MaxChunks chunks of which the last holds 10 entries (250 = 120 + 120 + 10) *)
Lengths == {0, ChunkSize, (MaxChunks - 1) * ChunkSize + 10}

(* unpaid_scheduled_matches, lines 181-188: ready matches whose tx field is '' *)
Unpaid == {m \in ready : payout_tx[m] = NoTx}

(* matches whose payout_tx / test_payout_tx field has been written *)
Paid == {m \in DOMAIN payout_tx : payout_tx[m] # NoTx}

(* line 171 *)
IsRealPayout == what = "set_payouts"

Whats == {"set_payouts_test", "set_payouts"}
Networks == {"rinkeby", "mainnet"}

(* what the operator may type at a prompt *)
Inputs == {"y", "n", "Y"}

(* order_by('amount'): matches are named by rank, so the matches of S among *)
(* lo..hi in ascending order (halving keeps the evaluation shallow)          *)
RECURSIVE Ascending(_, _, _)
Ascending(S, lo, hi) ==
    IF lo > hi THEN << >>
    ELSE IF lo = hi THEN (IF lo \in S THEN << lo >> ELSE << >>)
    ELSE LET mid == (lo + hi) \div 2
         IN Ascending(S, lo, mid) \o Ascending(S, mid + 1, hi)

OrderByAmount(S) == Ascending(S, 1, Cardinality(DOMAIN payout_tx))

(* ------------------------------ events -------------------------------- *)
Ev(name, secs) == [ev |-> name, secs |-> secs]
EvSign == Ev("sign", 0)
EvSend == Ev("send", 0)
EvCooldown == Ev("sleep", WAIT_TIME_BETWEEN_TXS)

(* what the observer keeps of one signing *)
(* why: "initial", "underpriced" or "nonce"; chain: the account's count then *)
Signing(s, count, why) ==
    [nonce |-> s.nonce, gasPrice |-> s.gasPrice, chain |-> count, why |-> why]

(* ------------------------------- Init --------------------------------- *)
CkIdle == ck_lst = << >> /\ ck_n = 1 /\ ck_i = 0 /\ ck_out = << >>

(* the verify branch not entered *)
VerifyIdle ==
    /\ payout_added_logs = << >>
    /\ payment_dict = << >>
    /\ user_block_dict = << >>
    /\ total_dai_required = 0

(* the store holds L ready, unpaid matches and, above them in amount,       *)
(* MaxNotReady matches that are not ready (amounts over the KYC threshold)   *)
MainInit(L) ==
    /\ pc = "check_network"
    /\ answers = << >>
    /\ payout_tx = [m \in 1..(L + MaxNotReady) |-> NoTx]
    /\ ready = 1..L
    /\ writes = 0
    /\ full_payouts_mapping = << >>
    /\ chunk_i = 0
    /\ payout_mapping = << >>
    /\ tx_args = NoArgs
    /\ signed = NoSigned
    /\ tx_id = NoTx
    /\ success = FALSE
    /\ counter = 0
    /\ err = NoErr
    /\ txCount = 0
    /\ chunk_no = 0
    /\ hist = << >>
    /\ oracle_calls = 0
    /\ contributions = {}
    /\ trace = << >>
    /\ built = {}
    /\ accepted = {}
    /\ mined = {}

Init ==
    /\ \E L \in Lengths : MainInit(L)
    /\ what \in Whats
    /\ network \in Networks
    /\ CkIdle
    /\ VerifyIdle

(* lines 170-177: the mode must go with the network *)
CheckNetwork ==
    /\ pc = "check_network"
    /\ pc' = IF network = "rinkeby" /\ IsRealPayout THEN "mismatch"
             ELSE IF network = "mainnet" /\ ~IsRealPayout THEN "mismatch"
             ELSE "prompt"
    /\ UNCHANGED answers

(* 'return' only on 'n': any other answer goes on *)
PromptContinueUnlessN ==
    /\ pc = "prompt"
    /\ \E a \in Inputs :
          /\ answers' = Append(answers, a)
          /\ pc' = IF a = "n" THEN "returned"
                   ELSE IF IsRealPayout THEN "prompt_real" ELSE "mapping"

(* lines 197-203: "continue? (y/n) " *)
PromptContinue ==
    /\ pc = "prompt"
    /\ \E a \in Inputs :
          /\ answers' = Append(answers, a)
          /\ pc' = IF a # "y" THEN "returned"
                   ELSE IF IsRealPayout THEN "prompt_real" ELSE "mapping"

(* lines 203-206: the second prompt of a real payout *)
PromptReal ==
    /\ pc = "prompt_real"
    /\ \E a \in Inputs :
          /\ answers' = Append(answers, a)
          /\ pc' = IF a # "y" THEN "returned" ELSE "mapping"

(* ------------------------------ actions ------------------------------- *)
(* lines 208-214 and 227: the payout list, and the chunks() generator made *)
BuildPayoutsMapping ==
    /\ pc = "mapping"
    /\ full_payouts_mapping' = OrderByAmount(Unpaid)
    /\ chunk_i' = 0
    /\ pc' = "for"
    /\ UNCHANGED << payout_tx, payout_mapping, tx_args, signed, tx_id, success, counter,
                    err, txCount, chunk_no, hist, trace, built, accepted, mined >>

(* the database update indented into the loop: the loop is left after the   *)
(* first chunk                                                               *)
NextChunkOnlyFirst ==
    /\ pc = "for"
    /\ IF chunk_i < Len(full_payouts_mapping) /\ chunk_no = 0
       THEN /\ payout_mapping' = Slice(full_payouts_mapping, chunk_i, ChunkSize)
            /\ chunk_i' = chunk_i + ChunkSize
            /\ chunk_no' = chunk_no + 1
            /\ pc' = "build"
       ELSE /\ pc' = "db_update"
            /\ UNCHANGED << payout_mapping, chunk_i, chunk_no >>
    /\ hist' = << >>
    /\ trace' = << >>
    /\ oracle_calls' = 0
    /\ UNCHANGED << payout_tx, full_payouts_mapping, tx_args, signed, tx_id, success,
                    counter, err, txCount, built, accepted, mined >>

(* line 232 with lines 224-225: the generator yields the next chunk, or is   *)
(* exhausted and the loop ends                                               *)
NextChunk ==
    /\ pc = "for"
    /\ IF chunk_i < Len(full_payouts_mapping)
       THEN /\ payout_mapping' = Slice(full_payouts_mapping, chunk_i, ChunkSize)
            /\ chunk_i' = chunk_i + ChunkSize
            /\ chunk_no' = chunk_no + 1
            /\ pc' = "build"
       ELSE /\ pc' = "db_update"
            /\ UNCHANGED << payout_mapping, chunk_i, chunk_no >>
    /\ hist' = << >>
    /\ trace' = << >>
    /\ oracle_calls' = 0
    /\ UNCHANGED << payout_tx, full_payouts_mapping, tx_args, signed, tx_id, success,
                    counter, err, txCount, built, accepted, mined >>

(* the nonce fetched once, before the loop: every chunk after the first is   *)
(* built with the nonce the last one was left with                           *)
BuildAndSignNonceHoisted ==
    /\ pc = "build"
    /\ \E g \in Gwei :
          tx_args' = [nonce |-> IF chunk_no = 1 THEN txCount ELSE tx_args.nonce,
                      gas |-> GasLimit, gasPrice |-> InitialGasPrice(g)]
    /\ signed' = SignTx(payout_mapping, tx_args')
    /\ tx_id' = NoTx
    /\ success' = FALSE
    /\ counter' = 0
    /\ hist' = << Signing(signed', txCount, "initial") >>
    /\ oracle_calls' = 1
    /\ trace' = << EvSign >>
    /\ built' = built \cup {chunk_no}
    /\ pc' = "send"
    /\ UNCHANGED << payout_tx, full_payouts_mapping, chunk_i, payout_mapping, err,
                    txCount, chunk_no, accepted, mined >>

(* tx_args kept across chunks: a chunk that follows a bumped one starts    *)
(* with the price the last one was left with                                 *)
BuildAndSignKeepsPrice ==
    /\ pc = "build"
    /\ \E g \in Gwei :
          tx_args' = [nonce |-> txCount, gas |-> GasLimit,
                      gasPrice |-> IF chunk_no > 1 /\ counter > 0
                                   THEN tx_args.gasPrice
                                   ELSE InitialGasPrice(g)]
    /\ signed' = SignTx(payout_mapping, tx_args')
    /\ tx_id' = NoTx
    /\ success' = FALSE
    /\ counter' = 0
    /\ hist' = << Signing(signed', txCount, "initial") >>
    /\ oracle_calls' = 1
    /\ trace' = << EvSign >>
    /\ built' = built \cup {chunk_no}
    /\ pc' = "send"
    /\ UNCHANGED << payout_tx, full_payouts_mapping, chunk_i, payout_mapping, err,
                    txCount, chunk_no, accepted, mined >>

(* lines 233-245: fetch the nonce, ask the oracle, build and sign *)
BuildAndSign ==
    /\ pc = "build"
    /\ \E g \in Gwei :
          tx_args' = [nonce |-> txCount, gas |-> GasLimit, gasPrice |-> InitialGasPrice(g)]
    /\ signed' = SignTx(payout_mapping, tx_args')
    /\ tx_id' = NoTx
    /\ success' = FALSE
    /\ counter' = 0
    /\ hist' = << Signing(signed', txCount, "initial") >>
    /\ oracle_calls' = 1
    /\ trace' = << EvSign >>
    /\ built' = built \cup {chunk_no}
    /\ pc' = "send"
    /\ UNCHANGED << payout_tx, full_payouts_mapping, chunk_i, payout_mapping, err,
                    txCount, chunk_no, accepted, mined >>

(* lines 246-249 and 271-272: the node accepts the broadcast *)
SendAccepted ==
    /\ pc = "send"
    /\ ~success
    /\ tx_id' = TxHash(signed)
    /\ success' = TRUE
    /\ trace' = Append(trace, EvSend)
    /\ accepted' = accepted \cup {chunk_no}
    /\ pc' = IF tx_id' = NoTx THEN "raised" ELSE "wait_mined"
    /\ UNCHANGED << payout_tx, full_payouts_mapping, chunk_i, payout_mapping, tx_args,
                    signed, counter, err, txCount, chunk_no, hist, built, mined >>

(* every rejection retried: the else branch cools down and signs again *)
SendRejectedRetryAll ==
    /\ pc = "send"
    /\ ~success
    /\ \E e \in Errors :
          /\ counter < MaxRetries
          /\ err' = e
          /\ counter' = counter + 1
          /\ pc' = IF e.underpriced THEN "cooldown_underpriced" ELSE "cooldown_nonce"
          /\ trace' = trace \o << EvSend, EvCooldown >>
    /\ UNCHANGED << payout_tx, full_payouts_mapping, chunk_i, payout_mapping, tx_args,
                    signed, tx_id, success, txCount, chunk_no, hist, built, accepted,
                    mined >>

(* a retry loop that gives up: a transient rejection after the first retry *)
(* is raised like any other error                                            *)
SendRejectedBounded ==
    /\ pc = "send"
    /\ ~success
    /\ \E e \in Errors :
          /\ err' = e
          /\ counter' = counter + 1
          /\ IF e.underpriced /\ counter < 1
             THEN /\ pc' = "cooldown_underpriced"
                  /\ trace' = trace \o << EvSend, EvCooldown >>
             ELSE IF e.nonce_low /\ ~e.underpriced /\ counter < 1
             THEN /\ pc' = "cooldown_nonce"
                  /\ trace' = trace \o << EvSend, EvCooldown >>
             ELSE /\ pc' = "raised"
                  /\ trace' = Append(trace, EvSend)
    /\ UNCHANGED << payout_tx, full_payouts_mapping, chunk_i, payout_mapping, tx_args,
                    signed, tx_id, success, txCount, chunk_no, hist, built, accepted,
                    mined >>

(* lines 250-254, 260-262, 268-269: the node rejects the broadcast with e;   *)
(* the handler counts it and classifies str(e)                               *)
SendRejected ==
    /\ pc = "send"
    /\ ~success
    /\ \E e \in Errors :
          /\ (e.underpriced \/ e.nonce_low) => counter < MaxRetries
          /\ err' = e
          /\ counter' = counter + 1
          /\ IF e.underpriced
             THEN /\ pc' = "cooldown_underpriced"
                  /\ trace' = trace \o << EvSend, EvCooldown >>
             ELSE IF e.nonce_low
             THEN /\ pc' = "cooldown_nonce"
                  /\ trace' = trace \o << EvSend, EvCooldown >>
             ELSE /\ pc' = "raised"
                  /\ trace' = Append(trace, EvSend)
    /\ UNCHANGED << payout_tx, full_payouts_mapping, chunk_i, payout_mapping, tx_args,
                    signed, tx_id, success, txCount, chunk_no, hist, built, accepted,
                    mined >>

(* lines 254-259: the cooldown is over; new gas price, rebuild, sign again *)
RebuildUnderpriced ==
    /\ pc = "cooldown_underpriced"
    /\ \E g \in Gwei : tx_args' = [tx_args EXCEPT !.gasPrice = BumpedGasPrice(g)]
    /\ signed' = SignTx(payout_mapping, tx_args')
    /\ hist' = Append(hist, Signing(signed', txCount, "underpriced"))
    /\ oracle_calls' = oracle_calls + 1
    /\ trace' = Append(trace, EvSign)
    /\ err' = NoErr
    /\ pc' = "send"
    /\ UNCHANGED << payout_tx, full_payouts_mapping, chunk_i, payout_mapping, tx_id,
                    success, counter, txCount, chunk_no, built, accepted, mined >>

(* the rebuild after 'nonce too low' asking the oracle again, as the        *)
(* underpriced branch does on line 257                                       *)
RebuildNonceTooLowRepriced ==
    /\ pc = "cooldown_nonce"
    /\ \E g \in Gwei :
          tx_args' = [tx_args EXCEPT !.nonce = txCount, !.gasPrice = BumpedGasPrice(g)]
    /\ signed' = SignTx(payout_mapping, tx_args')
    /\ hist' = Append(hist, Signing(signed', txCount, "nonce"))
    /\ oracle_calls' = oracle_calls + 1
    /\ trace' = Append(trace, EvSign)
    /\ err' = NoErr
    /\ pc' = "send"
    /\ UNCHANGED << payout_tx, full_payouts_mapping, chunk_i, payout_mapping, tx_id,
                    success, counter, txCount, chunk_no, built, accepted, mined >>

(* the rebuild after 'nonce too low' without line 265: the old nonce again *)
RebuildNonceTooLowStale ==
    /\ pc = "cooldown_nonce"
    /\ tx_args' = tx_args
    /\ signed' = SignTx(payout_mapping, tx_args')
    /\ hist' = Append(hist, Signing(signed', txCount, "nonce"))
    /\ oracle_calls' = oracle_calls
    /\ trace' = Append(trace, EvSign)
    /\ err' = NoErr
    /\ pc' = "send"
    /\ UNCHANGED << payout_tx, full_payouts_mapping, chunk_i, payout_mapping, tx_id,
                    success, counter, txCount, chunk_no, built, accepted, mined >>

(* lines 262-267: the cooldown is over; new nonce, rebuild, sign again *)
RebuildNonceTooLow ==
    /\ pc = "cooldown_nonce"
    /\ tx_args' = [tx_args EXCEPT !.nonce = txCount]
    /\ signed' = SignTx(payout_mapping, tx_args')
    /\ hist' = Append(hist, Signing(signed', txCount, "nonce"))
    /\ oracle_calls' = oracle_calls
    /\ trace' = Append(trace, EvSign)
    /\ err' = NoErr
    /\ pc' = "send"
    /\ UNCHANGED << payout_tx, full_payouts_mapping, chunk_i, payout_mapping, tx_id,
                    success, counter, txCount, chunk_no, built, accepted, mined >>

(* 'if' for 'while' on line 276: one poll, then on whatever it said *)
PollMinedOnce ==
    /\ pc = "wait_mined"
    /\ \E is_mined \in BOOLEAN :
          /\ mined' = IF is_mined THEN mined \cup {chunk_no} ELSE mined
          /\ pc' = "pause"
    /\ UNCHANGED << payout_tx, full_payouts_mapping, chunk_i, payout_mapping, tx_args,
                    signed, tx_id, success, counter, err, txCount, chunk_no, hist,
                    trace, built, accepted >>

(* the matches of a chunk saved as soon as the chunk is mined *)
PollMinedAndSave ==
    /\ pc = "wait_mined"
    /\ \E is_mined \in BOOLEAN :
          IF is_mined
          THEN /\ mined' = mined \cup {chunk_no}
               /\ payout_tx' = [m \in DOMAIN payout_tx |->
                                   IF \E k \in 1..Len(payout_mapping) : payout_mapping[k] = m
                                   THEN tx_id ELSE payout_tx[m]]
               /\ pc' = "pause"
          ELSE UNCHANGED << mined, payout_tx, pc >>
    /\ UNCHANGED << full_payouts_mapping, chunk_i, payout_mapping, tx_args,
                    signed, tx_id, success, counter, err, txCount, chunk_no, hist,
                    trace, built, accepted >>

(* the poll asks about a transaction the node never saw: never mined *)
PollMinedNever ==
    /\ pc = "wait_mined"
    /\ UNCHANGED << pc, payout_tx, full_payouts_mapping, chunk_i, payout_mapping,
                    tx_args, signed, tx_id, success, counter, err, txCount, chunk_no,
                    hist, trace, built, accepted, mined >>

(* lines 276-277: one poll of has_tx_mined; not mined sleeps a second and   *)
(* polls again                                                               *)
PollMined ==
    /\ pc = "wait_mined"
    /\ \E is_mined \in BOOLEAN :
          IF is_mined
          THEN /\ mined' = mined \cup {chunk_no}
               /\ pc' = "pause"
          ELSE UNCHANGED << mined, pc >>
    /\ UNCHANGED << payout_tx, full_payouts_mapping, chunk_i, payout_mapping, tx_args,
                    signed, tx_id, success, counter, err, txCount, chunk_no, hist,
                    trace, built, accepted >>

(* the pause between chunks as short as one poll interval *)
PauseOnePollInterval ==
    /\ pc = "pause"
    /\ trace' = Append(trace, Ev("sleep", 1))
    /\ pc' = "for"
    /\ UNCHANGED << payout_tx, full_payouts_mapping, chunk_i, payout_mapping, tx_args,
                    signed, tx_id, success, counter, err, txCount, chunk_no, hist,
                    built, accepted, mined >>

(* lines 279-282: the pause between chunks *)
PauseBetweenTxs ==
    /\ pc = "pause"
    /\ trace' = Append(trace, EvCooldown)
    /\ pc' = "for"
    /\ UNCHANGED << payout_tx, full_payouts_mapping, chunk_i, payout_mapping, tx_args,
                    signed, tx_id, success, counter, err, txCount, chunk_no, hist,
                    built, accepted, mined >>

(* tx_id read before the loop over the matches: unbound, and NameError,    *)
(* whenever the chunk loop never ran                                         *)
UpdateDatabaseUnbound ==
    /\ pc = "db_update"
    /\ IF chunk_no = 0
       THEN /\ pc' = "name_error"
            /\ UNCHANGED << payout_tx, contributions >>
       ELSE /\ payout_tx' = [m \in DOMAIN payout_tx |->
                                IF m \in Unpaid THEN tx_id ELSE payout_tx[m]]
            /\ contributions' = contributions \cup
                                    {[match |-> m, tx_id |-> tx_id] : m \in Unpaid}
            /\ pc' = "done"
    /\ UNCHANGED << full_payouts_mapping, chunk_i, payout_mapping, tx_args, signed,
                    tx_id, success, counter, err, txCount, chunk_no, hist, trace,
                    built, accepted, mined >>

(* a transaction id recorded only on the matches whose entries it carried *)
UpdateDatabaseOwnEntries ==
    /\ pc = "db_update"
    /\ IF Unpaid # {} /\ chunk_no = 0
       THEN /\ pc' = "name_error"
            /\ UNCHANGED << payout_tx, contributions >>
       ELSE /\ payout_tx' = [m \in DOMAIN payout_tx |->
                                IF m \in Unpaid /\ \E k \in DOMAIN signed.data :
                                                       signed.data[k] = m
                                THEN tx_id ELSE payout_tx[m]]
            /\ contributions' = contributions \cup
                                    {[match |-> m, tx_id |-> tx_id] :
                                        m \in {u \in Unpaid : \E k \in DOMAIN signed.data :
                                                                 signed.data[k] = u}}
            /\ pc' = "done"
    /\ UNCHANGED << full_payouts_mapping, chunk_i, payout_mapping, tx_args, signed,
                    tx_id, success, counter, err, txCount, chunk_no, hist, trace,
                    built, accepted, mined >>

(* lines 284-360: the unpaid query is evaluated again; every match it finds *)
(* gets tx_id and is saved.  tx_id is unbound when the chunk loop never ran, *)
(* and the first match then raises NameError                                 *)
UpdateDatabase ==
    /\ pc = "db_update"
    /\ IF Unpaid # {} /\ chunk_no = 0
       THEN /\ pc' = "name_error"
            /\ UNCHANGED << payout_tx, contributions >>
       ELSE /\ payout_tx' = [m \in DOMAIN payout_tx |->
                                IF m \in Unpaid THEN tx_id ELSE payout_tx[m]]
            /\ contributions' = contributions \cup
                                    {[match |-> m, tx_id |-> tx_id] : m \in Unpaid}
            /\ pc' = "done"
    /\ UNCHANGED << full_payouts_mapping, chunk_i, payout_mapping, tx_args, signed,
                    tx_id, success, counter, err, txCount, chunk_no, hist, trace,
                    built, accepted, mined >>

(* the chain: a transaction of from_address is mined while the run goes on *)
ChainAdvance ==
    /\ pc \in {"build", "send", "cooldown_underpriced", "cooldown_nonce",
               "wait_mined", "pause"}
    /\ txCount < MaxCount
    /\ txCount' = txCount + 1
    /\ UNCHANGED << pc, payout_tx, full_payouts_mapping, chunk_i, payout_mapping,
                    tx_args, signed, tx_id, success, counter, err, chunk_no, hist,
                    trace, built, accepted, mined >>

(* what the steps of the run leave alone *)
runFrame == << ckVars, verifyVars, gateVars, ready, writes >>

Next ==
    \/ (CheckNetwork /\ UNCHANGED << gateFrame, what, network >>)
    \/ (PromptContinue /\ UNCHANGED << gateFrame, what, network >>)
    \/ (PromptReal /\ UNCHANGED << gateFrame, what, network >>)
    \/ (BuildPayoutsMapping /\ UNCHANGED << runFrame, oracle_calls, contributions >>)
    \/ (NextChunk /\ UNCHANGED << runFrame, contributions >>)
    \/ (BuildAndSign /\ UNCHANGED << runFrame, contributions >>)
    \/ (SendAccepted /\ UNCHANGED << runFrame, oracle_calls, contributions >>)
    \/ (SendRejected /\ UNCHANGED << runFrame, oracle_calls, contributions >>)
    \/ (RebuildUnderpriced /\ UNCHANGED << runFrame, contributions >>)
    \/ (RebuildNonceTooLow /\ UNCHANGED << runFrame, contributions >>)
    \/ (PollMined /\ UNCHANGED << runFrame, oracle_calls, contributions >>)
    \/ (PauseBetweenTxs /\ UNCHANGED << runFrame, oracle_calls, contributions >>)
    \/ (UpdateDatabase /\ UNCHANGED << runFrame, oracle_calls >>)
    \/ (ChainAdvance /\ UNCHANGED << runFrame, oracle_calls, contributions >>)

Spec == Init /\ [][Next]_vars

(* --------------------------- another writer --------------------------- *)
(* while the chunks are being submitted and confirmed *)
InFlight == {"for", "build", "send", "cooldown_underpriced", "cooldown_nonce",
             "wait_mined", "pause"}

(* what a writer to the matches leaves alone *)
writerFrame == << pc, gateVars, payout_tx, full_payouts_mapping, chunk_i, payout_mapping,
                  tx_args, signed, tx_id, success, counter, err, txCount, chunk_no,
                  hist, trace, oracle_calls, contributions, built, accepted, mined,
                  ckVars, verifyVars >>

(* a match that was not ready is made ready (its ready_for_payout /        *)
(* ready_for_test_payout flag is set) by another process                    *)
WriterAdds ==
    /\ pc \in InFlight
    /\ writes < MaxWrites
    /\ \E m \in DOMAIN payout_tx \ ready : ready' = ready \cup {m}
    /\ writes' = writes + 1

(* the flag of a ready, unpaid match is cleared by another process: of the  *)
(* match of the first or of the last entry of the payout list               *)
WriterRemoves ==
    /\ pc \in InFlight
    /\ writes < MaxWrites
    /\ full_payouts_mapping # << >>
    /\ \E m \in {full_payouts_mapping[1], Last(full_payouts_mapping)} \cap ready :
          ready' = ready \ {m}
    /\ writes' = writes + 1

NextWriters ==
    \/ Next
    \/ (WriterAdds /\ UNCHANGED writerFrame)
    \/ (WriterRemoves /\ UNCHANGED writerFrame)

SpecWriters == Init /\ [][NextWriters]_vars

(* ------------------------------ fairness ------------------------------ *)
(* a step of the program itself: it runs on whenever it is not waiting for *)
(* the node or the chain                                                    *)
ProgramStep ==
    /\ pc \in {"mapping", "for", "build", "cooldown_underpriced", "cooldown_nonce",
               "pause", "db_update"}
    /\ Next
    /\ pc' # pc

(* the node accepts the broadcast *)
Accepted == pc = "send" /\ Next /\ pc' = "wait_mined"

(* has_tx_mined returns true *)
ReportedMined == pc = "wait_mined" /\ Next /\ pc' = "pause"

(* a real payout (both prompts); the program keeps running, a broadcast     *)
(* that is retried again and again is accepted in the end, and an accepted  *)
(* transaction is mined in the end                                          *)
InitLive == Init /\ IsRealPayout

SpecLive ==
    /\ InitLive /\ [][Next]_vars
    /\ WF_vars(ProgramStep)
    /\ SF_vars(Accepted)
    /\ WF_vars(ReportedMined)

(* ----------------------- chunks() on its own --------------------------- *)
(* every list of at most MaxLen entries over 1..MaxVal, every size 1..MaxN,  *)
(* and the 250-entry list with the size the run uses                         *)
SmallLists == UNION {[1..len -> 1..MaxVal] : len \in 0..MaxLen}

InitChunks ==
    /\ MainInit(0)
    /\ what = "set_payouts_test"
    /\ network = "rinkeby"
    /\ \/ ck_lst \in SmallLists /\ ck_n \in 1..MaxN
       \/ ck_lst = [k \in 1..250 |-> k] /\ ck_n = ChunkSize
    /\ ck_i = 0
    /\ ck_out = << >>
    /\ VerifyIdle

(* lines 224-225: one turn of the for loop inside chunks(), one chunk yielded *)
ChunksYield ==
    /\ ck_i < Len(ck_lst)
    /\ ck_out' = Append(ck_out, Slice(ck_lst, ck_i, ck_n))
    /\ ck_i' = ck_i + ck_n
    /\ UNCHANGED << ck_lst, ck_n >>

NextChunks == ChunksYield /\ UNCHANGED << mainVars, verifyVars >>

SpecChunks == InitChunks /\ [][NextChunks]_vars

ChunksDone == ck_i >= Len(ck_lst)

RECURSIVE Concat(_)
Concat(ss) == IF ss = << >> THEN << >> ELSE Head(ss) \o Concat(Tail(ss))

(* C1: when chunks(lst, n) is exhausted, the chunks yielded concatenate to   *)
(* lst in order, none is longer than n, and all but the last have exactly n  *)
(* entries; while it runs, the chunks so far concatenate to a prefix of lst. *)
C1_ChunkCompleteness ==
    /\ \A k \in 1..Len(ck_out) : Len(ck_out[k]) <= ck_n /\ Len(ck_out[k]) >= 1
    /\ \A k \in 1..(Len(ck_out) - 1) : Len(ck_out[k]) = ck_n
    /\ Concat(ck_out) = SubSeq(ck_lst, 1, Min(ck_i, Len(ck_lst)))
    /\ ChunksDone => Concat(ck_out) = ck_lst

(* the 250-entry list has been cut into chunks of 120, 120 and 10 entries *)
C1_Witness ==
    /\ ChunksDone
    /\ Len(ck_lst) = 250 /\ ck_n = 120
    /\ Len(ck_out) = 3
    /\ Len(ck_out[1]) = 120 /\ Len(ck_out[2]) = 120 /\ Len(ck_out[3]) = 10

(* ------------------------- the submission cycle ------------------------ *)
(* chunks a list of len entries is cut into *)
NumChunks(len) == (len + ChunkSize - 1) \div ChunkSize

(* C2: in one chunk's cycle, every transaction re-signed after 'replacement  *)
(* transaction underpriced' has a gas price above that of the transaction    *)
(* signed before it, whatever the oracle answers.                            *)
C2_UnderpricedStrictlyRaisesPrice ==
    \A k \in 2..Len(hist) :
        hist[k].why = "underpriced" => PriceLT(hist[k - 1].gasPrice, hist[k].gasPrice)

(* C3: every transaction signed for the chunk, at the initial build or at    *)
(* either rebuild, carries the account's transaction count of that moment.   *)
C3_NonceCurrentAtEverySigning ==
    \A k \in 1..Len(hist) : hist[k].nonce = hist[k].chain

(* C3, amended: the initial build and the rebuild after 'nonce too low'      *)
(* carry the account's count of that moment; the rebuild after 'replacement  *)
(* transaction underpriced' carries the nonce of the rejected transaction.   *)
C3_NonceCurrentUnlessUnderpriced ==
    \A k \in 1..Len(hist) :
        IF hist[k].why = "underpriced"
        THEN hist[k].nonce = hist[k - 1].nonce
        ELSE hist[k].nonce = hist[k].chain

(* the account's count moved from 0 to 1 during the cooldown, and the        *)
(* underpriced rebuild was signed with the nonce 0 of the initial build      *)
C3_Witness ==
    /\ pc = "send"
    /\ Len(hist) = 2
    /\ hist[1].why = "initial" /\ hist[1].nonce = 0 /\ hist[1].chain = 0
    /\ hist[2].why = "underpriced" /\ hist[2].nonce = 0 /\ hist[2].chain = 1
    /\ signed.nonce = 0 /\ txCount = 1

(* C4: the step that rebuilds after 'nonce too low' signs with the account's *)
(* count as it is when the cooldown is over, not with the rejected nonce.    *)
C4_NonceRefetchedAfterNonceTooLow ==
    [][pc = "cooldown_nonce" /\ pc' = "send" =>
          /\ tx_args'.nonce = txCount
          /\ signed'.nonce = txCount
          /\ Last(hist').why = "nonce"]_vars

(* a 'nonce too low' rebuild whose nonce differs from the rejected one *)
C4_Witness ==
    /\ pc = "send"
    /\ Len(hist) >= 2
    /\ Last(hist).why = "nonce"
    /\ Last(hist).nonce = txCount
    /\ Last(hist).nonce # hist[Len(hist) - 1].nonce
    /\ signed.nonce = Last(hist).nonce

(* C5: chunks are built in order, one at a time: whenever chunk c has been   *)
(* built, every chunk before it has been accepted and reported mined, and no *)
(* chunk beyond the one the loop is at has been touched.                     *)
C5_SequentialOrdering ==
    /\ built \subseteq 1..chunk_no
    /\ accepted \subseteq built
    /\ mined \subseteq accepted
    /\ \A c \in built : \A d \in 1..(c - 1) : d \in accepted /\ d \in mined
    /\ pc \in {"send", "cooldown_underpriced", "cooldown_nonce"} =>
          chunk_no \in built /\ chunk_no \notin accepted

(* the third chunk is being broadcast, the first two are mined *)
C5_Witness ==
    /\ pc = "send"
    /\ chunk_no = 3
    /\ built = {1, 2, 3}
    /\ mined = {1, 2}

(* C6: a rejection that is neither 'replacement transaction underpriced' nor *)
(* 'nonce too low' is raised at once, with no cooldown and no rebuild, and   *)
(* the run has ended: nothing changes afterwards, so no later chunk is built. *)
C6_FatalAbort ==
    /\ [][(pc = "send" /\ counter' = counter + 1
              /\ ~err'.underpriced /\ ~err'.nonce_low) =>
            /\ pc' = "raised"
            /\ trace' = Append(trace, EvSend)
            /\ hist' = hist /\ signed' = signed /\ built' = built]_vars
    /\ [][pc = "raised" => UNCHANGED vars]_vars
    /\ [](pc = "raised" =>
            /\ ~err.underpriced /\ ~err.nonce_low
            /\ Last(trace) = EvSend
            /\ built = 1..chunk_no)

(* the first chunk of a three-chunk run has been rejected fatally after one  *)
(* transient rejection                                                       *)
C6_Witness ==
    /\ pc = "raised"
    /\ chunk_no = 1
    /\ counter = 2
    /\ Len(full_payouts_mapping) = 250
    /\ built = {1}

(* C7: the match records are written only once every chunk of the run has    *)
(* been accepted and reported mined.                                         *)
C7_DatabaseUpdateAfterAllChunks ==
    (pc \in {"db_update", "done"} \/ Paid # {}) =>
        /\ accepted = 1..NumChunks(Len(full_payouts_mapping))
        /\ mined = 1..NumChunks(Len(full_payouts_mapping))
        /\ pc \in {"db_update", "done"}

(* 250 matches have been recorded as paid after three mined chunks *)
C7_Witness ==
    /\ pc = "done"
    /\ Len(full_payouts_mapping) = 250
    /\ mined = {1, 2, 3}
    /\ Unpaid = {}

(* C8: when the run has ended on a fatal rejection of chunk i, chunks 1..i-1 *)
(* are still accepted and mined, no chunk after i has been built, and every  *)
(* match is still unpaid in the store.                                       *)
C8_FatalLeavesStoreUntouched ==
    pc = "raised" =>
        /\ accepted = 1..(chunk_no - 1)
        /\ mined = 1..(chunk_no - 1)
        /\ built = 1..chunk_no
        /\ Paid = {}
        /\ Unpaid = ready
        /\ tx_id = NoTx

(* the second of three chunks has been rejected fatally *)
C8_Witness ==
    /\ pc = "raised"
    /\ chunk_no = 2
    /\ mined = {1}
    /\ Len(full_payouts_mapping) = 250
    /\ Unpaid = 1..250

(* the events of k underpriced rejections and an acceptance: sign, send,     *)
(* then k times sleep, sign, send                                            *)
RECURSIVE RetryEvents(_)
RetryEvents(k) ==
    IF k = 0 THEN << EvSign, EvSend >>
    ELSE RetryEvents(k - 1) \o << EvCooldown, EvSign, EvSend >>

OnlyUnderpriced == \A k \in 2..Len(hist) : hist[k].why = "underpriced"

(* C9: a chunk accepted after k 'replacement transaction underpriced'        *)
(* rejections has k + 1 signed transactions, each broadcast once, a cooldown *)
(* between consecutive broadcasts, and strictly increasing gas prices.       *)
C9_UnderpricedRetryScenario ==
    (pc = "wait_mined" /\ OnlyUnderpriced) =>
        /\ Len(hist) = counter + 1
        /\ trace = RetryEvents(counter)
        /\ \A k \in 2..Len(hist) : PriceLT(hist[k - 1].gasPrice, hist[k].gasPrice)

(* C10: in one chunk's cycle no signed transaction has a gas price below     *)
(* that of the transaction signed before it.                                 *)
C10_GasPriceNeverDecreases ==
    \A k \in 2..Len(hist) : PriceLE(hist[k - 1].gasPrice, hist[k].gasPrice)

(* ------------------------------ the oracle ----------------------------- *)
RECURSIVE CountWhy(_, _)
CountWhy(h, why) ==
    IF h = << >> THEN 0
    ELSE (IF Head(h).why = why THEN 1 ELSE 0) + CountWhy(Tail(h), why)

(* C11: the oracle is called once for every signing: in a chunk's cycle     *)
(* there are as many oracle calls as signed transactions.                    *)
C11_OracleOncePerSigning == oracle_calls = Len(hist)

(* C11, amended: the oracle is called once for the initial signing and once  *)
(* for every signing after 'replacement transaction underpriced'; a signing  *)
(* after 'nonce too low' makes no oracle call and keeps the gas price of the *)
(* rejected transaction.                                                     *)
C11_OracleOncePerPricedSigning ==
    /\ oracle_calls = Len(hist) - CountWhy(hist, "nonce")
    /\ \A k \in 2..Len(hist) :
          hist[k].why = "nonce" => hist[k].gasPrice = hist[k - 1].gasPrice

(* three signings, the second after 'nonce too low', the third after        *)
(* 'replacement transaction underpriced': two oracle calls                   *)
C11_Witness ==
    /\ pc = "send"
    /\ Len(hist) = 3
    /\ hist[2].why = "nonce" /\ hist[3].why = "underpriced"
    /\ oracle_calls = 2

(* ---------------------------- the retry loop -------------------------- *)
(* str(e) holds one of the two substrings the handler tests *)
Transient(e) == e.underpriced \/ e.nonce_low

Cooldowns == {"cooldown_underpriced", "cooldown_nonce"}

(* C12: the retry loop has no attempt bound for the two transient causes:   *)
(* whatever the count of rejections so far, a transient rejection is        *)
(* counted, cooled down and followed by another broadcast; a broadcast is   *)
(* left only by acceptance, by a transient rejection that is retried, or by *)
(* raising an error that is not transient.                                  *)
C12_UnboundedTransientRetry ==
    /\ [](pc = "raised" => ~Transient(err))
    /\ [][(pc = "send" /\ pc' # "send") =>
            \/ pc' = "wait_mined" /\ success' /\ chunk_no \in accepted'
            \/ /\ pc' \in Cooldowns
               /\ Transient(err')
               /\ counter' = counter + 1
               /\ ~success'
            \/ pc' = "raised" /\ ~Transient(err')]_vars
    /\ [][(pc \in Cooldowns /\ pc' # pc) =>
            pc' = "send" /\ ~success' /\ Len(hist') = Len(hist) + 1]_vars

(* as many transient rejections as the model allows, of both causes, and    *)
(* the loop is broadcasting again                                           *)
C12_Witness ==
    /\ pc = "send"
    /\ ~success
    /\ counter = MaxRetries
    /\ Len(hist) = MaxRetries + 1
    /\ hist[2].why = "underpriced"
    /\ Last(hist).why = "nonce"

(* ---------------------------- the empty run --------------------------- *)
(* where the run is before the payout list is read, and where it ends      *)
(* without reading it                                                       *)
BeforeMapping == {"check_network", "prompt", "prompt_real", "returned", "mismatch"}

(* C13: when no match is unpaid and ready, the run cuts no chunk, builds,   *)
(* signs and broadcasts nothing, polls for nothing, raises no error and     *)
(* leaves every match record as it was: it goes from the empty payout list  *)
(* straight to the end.                                                     *)
C13_EmptyRunIsNoOp ==
    ready = {} =>
        /\ pc \in BeforeMapping \cup {"mapping", "for", "db_update", "done"}
        /\ full_payouts_mapping = << >>
        /\ chunk_no = 0 /\ built = {} /\ accepted = {} /\ mined = {}
        /\ hist = << >> /\ trace = << >> /\ oracle_calls = 0
        /\ signed = NoSigned /\ tx_id = NoTx
        /\ Paid = {}

(* a run over no unpaid match has ended; the store holds a match, which is  *)
(* not ready and still unpaid                                               *)
C13_Witness ==
    /\ pc = "done"
    /\ ready = {}
    /\ DOMAIN payout_tx # {}
    /\ Paid = {}

(* --------------------------- per-chunk setup -------------------------- *)
(* C14: nothing of a chunk's submission carries over to the next: the step  *)
(* that builds a chunk's first transaction, whatever the chunk before left  *)
(* in tx_args, counter, success and tx_id, signs the chunk's own entries    *)
(* with the account's count of that moment and a price of 1.4 times an      *)
(* oracle answer, and leaves counter = 0, success = False, tx_id = None; so  *)
(* a chunk's first broadcast always finds that state.                       *)
C14_NoStateAcrossChunks ==
    /\ [][(pc = "build" /\ pc' # "build") =>
            /\ pc' = "send"
            /\ tx_args'.nonce = txCount
            /\ \E g \in Gwei : tx_args'.gasPrice = InitialGasPrice(g)
            /\ tx_args'.gas = GasLimit
            /\ signed' = SignTx(Slice(full_payouts_mapping, chunk_i - ChunkSize, ChunkSize),
                                tx_args')
            /\ counter' = 0 /\ ~success' /\ tx_id' = NoTx
            /\ hist' = << Signing(signed', txCount, "initial") >>
            /\ oracle_calls' = 1]_vars
    /\ []((pc = "send" /\ Len(hist) = 1) =>
            /\ counter = 0 /\ ~success /\ tx_id = NoTx /\ err = NoErr
            /\ hist[1].why = "initial"
            /\ hist[1].nonce = hist[1].chain
            /\ \E g \in Gwei : signed.gasPrice = InitialGasPrice(g))

(* the second chunk's first transaction is being broadcast: its nonce is    *)
(* the account's count, which has moved since the run began, and its price  *)
(* is 1.4 times the lowest oracle answer, below every bumped price          *)
C14_Witness ==
    /\ pc = "send"
    /\ chunk_no = 2
    /\ accepted = {1} /\ mined = {1}
    /\ Len(hist) = 1
    /\ counter = 0 /\ ~success /\ tx_id = NoTx
    /\ signed.nonce = 1 /\ txCount = 1
    /\ signed.gasPrice = InitialGasPrice(1)
    /\ PriceLT(signed.gasPrice, BumpedGasPrice(1))

(* ------------------------ the pause between chunks -------------------- *)
(* C15: the pause of WAIT_TIME_BETWEEN_TXS seconds starts only once the     *)
(* chunk's transaction has been reported mined, and the loop takes up the   *)
(* next chunk (nonce fetch, build, signing, broadcast) only from the loop   *)
(* header, where the last thing that happened for the chunk before is that  *)
(* pause.                                                                   *)
C15_PauseBetweenMinedAndNextChunk ==
    /\ [](pc = "pause" => chunk_no \in mined /\ tx_id # NoTx)
    /\ []((pc = "for" /\ chunk_no >= 1) =>
            /\ chunk_no \in mined
            /\ Last(trace) = Ev("sleep", WAIT_TIME_BETWEEN_TXS))
    /\ [][(pc' = "build" /\ pc # "build") =>
            /\ pc = "for"
            /\ chunk_no' = chunk_no + 1
            /\ chunk_no >= 1 =>
                  /\ chunk_no \in mined
                  /\ Last(trace) = Ev("sleep", WAIT_TIME_BETWEEN_TXS)]_vars
    /\ [][(pc # "pause" /\ pc' = "pause") =>
            pc = "wait_mined" /\ chunk_no \in mined']_vars

(* the first chunk is mined and the pause after it is over; the loop is at  *)
(* its header with a second chunk to take up                                *)
C15_Witness ==
    /\ pc = "for"
    /\ chunk_no = 1
    /\ mined = {1}
    /\ chunk_i < Len(full_payouts_mapping)
    /\ Last(trace) = Ev("sleep", 15)
    /\ trace[Len(trace) - 1] = EvSend

(* ----------------------------- termination ---------------------------- *)
AllChunks == 1..NumChunks(Len(full_payouts_mapping))

(* C16: if every broadcast is accepted in the end, with no fatal rejection, *)
(* and every accepted transaction is reported mined in the end, a run that  *)
(* has read the payout list gets every chunk mined and reaches the database *)
(* update; and the poll for a chunk is left only by the report that its     *)
(* transaction is mined: until then no chunk is taken up and no record is   *)
(* written.                                                                 *)
C16_EventuallyAllMined ==
    /\ [](pc # "raised") =>
          ((pc = "mapping") ~> (pc = "db_update" /\ mined = AllChunks))
    /\ [][pc = "wait_mined" =>
            \/ /\ pc' = "wait_mined"
               /\ chunk_no' = chunk_no /\ built' = built /\ mined' = mined
               /\ payout_tx' = payout_tx
            \/ /\ pc' = "pause"
               /\ chunk_no \notin mined /\ chunk_no \in mined']_vars

(* three chunks mined, the last after transient rejections, and the run is  *)
(* at the database update                                                   *)
C16_Witness ==
    /\ pc = "db_update"
    /\ Len(full_payouts_mapping) > 2 * ChunkSize
    /\ mined = AllChunks
    /\ counter = MaxRetries

(* ----------------------- what a retry may change ---------------------- *)
(* C17: across the retries of a chunk only the nonce and the gas price of   *)
(* the transaction request change: every signed transaction has the gas     *)
(* limit 8,000,000 and carries the entries of the chunk the loop is at, in  *)
(* the order of the payout list, and a rebuild leaves the payload and every *)
(* field of the request but nonce and gasPrice as they were.                *)
C17_OnlyNonceAndPriceChange ==
    /\ [](pc \in {"send", "wait_mined", "pause"} \cup Cooldowns =>
            /\ signed.gas = 8000000
            /\ tx_args.gas = 8000000
            /\ signed.data = Slice(full_payouts_mapping, chunk_i - ChunkSize, ChunkSize)
            /\ signed.nonce = tx_args.nonce /\ signed.gasPrice = tx_args.gasPrice)
    /\ [][(pc \in Cooldowns /\ pc' = "send") =>
            /\ signed'.data = signed.data
            /\ signed'.gas = signed.gas
            /\ DOMAIN tx_args' = DOMAIN tx_args
            /\ \A f \in DOMAIN tx_args \ {"nonce", "gasPrice"} : tx_args'[f] = tx_args[f]
            /\ payout_mapping' = payout_mapping]_vars

(* the last chunk of a three-chunk list, of 10 entries, signed for the      *)
(* third time, with a nonce and a price that differ from the first signing  *)
C17_Witness ==
    /\ pc = "send"
    /\ chunk_no = 3
    /\ Len(hist) = 3
    /\ Len(signed.data) = 10
    /\ signed.gas = GasLimit
    /\ hist[3].nonce # hist[1].nonce
    /\ hist[3].gasPrice # hist[1].gasPrice

(* ------------------------- what the update records ------------------- *)
(* the matches the payout list was built from *)
Listed == {full_payouts_mapping[k] : k \in DOMAIN full_payouts_mapping}

(* C18: after a run of two or more chunks, every match the update has gone  *)
(* through, whichever chunk carried its entry, and the Contribution made    *)
(* for it, hold the transaction id of the last chunk; no other transaction  *)
(* id is in any record.                                                     *)
C18_LastTxIdOnEveryMatch ==
    (pc = "done" /\ chunk_no >= 2) =>
        /\ tx_id = TxHash(signed)
        /\ signed.data = Slice(full_payouts_mapping, (chunk_no - 1) * ChunkSize, ChunkSize)
        /\ Paid = Listed
        /\ \A m \in Paid : payout_tx[m] = tx_id
        /\ contributions = {[match |-> m, tx_id |-> tx_id] : m \in Paid}

(* 250 matches in three chunks: the match of the first entry, carried by    *)
(* the first chunk, holds the id of the transaction whose payload begins    *)
(* with entry 241                                                           *)
C18_Witness ==
    /\ pc = "done"
    /\ chunk_no = 3
    /\ Cardinality(contributions) = 250
    /\ payout_tx[1] = tx_id
    /\ tx_id.data0 = 241 /\ tx_id.n = 10
    /\ signed.data[1] = 241

(* ------------------------------ the gate ------------------------------ *)
(* C19: the run gets beyond the prompts only if the mode goes with the      *)
(* network (set_payouts on mainnet, set_payouts_test on rinkeby), the       *)
(* answer to "continue?" was exactly 'y' and, for a real payout, the answer *)
(* to the second prompt was 'y' too; before that, and where the run has     *)
(* returned or raised at the gate, nothing has been asked of the chain,     *)
(* built, signed or broadcast and no record has been written; and a run     *)
(* that has returned or raised there does nothing more.                     *)
C19_NoPayoutWithoutConsent ==
    /\ [](pc \notin BeforeMapping =>
            /\ IsRealPayout <=> network = "mainnet"
            /\ answers = IF IsRealPayout THEN << "y", "y" >> ELSE << "y" >>)
    /\ [](pc \in BeforeMapping =>
            /\ built = {} /\ accepted = {} /\ mined = {}
            /\ hist = << >> /\ trace = << >> /\ oracle_calls = 0
            /\ tx_args = NoArgs /\ signed = NoSigned /\ tx_id = NoTx
            /\ full_payouts_mapping = << >>
            /\ Paid = {} /\ contributions = {})
    /\ [][pc \notin {"returned", "mismatch"}]_vars

(* a real payout on mainnet, both prompts answered 'y': the first chunk's   *)
(* transaction is being broadcast                                           *)
C19_Witness ==
    /\ pc = "send"
    /\ what = "set_payouts" /\ network = "mainnet"
    /\ answers = << "y", "y" >>
    /\ built = {1}
    /\ Len(trace) > 0

(* ------------------- the update and the broadcast chunks -------------- *)
(* the matches whose entries were in a chunk the node accepted *)
Included ==
    {full_payouts_mapping[k] :
        k \in {i \in DOMAIN full_payouts_mapping :
                  ((i - 1) \div ChunkSize) + 1 \in accepted}}

(* C20: when the run has ended, the matches recorded as paid are exactly    *)
(* the matches whose entries were in the broadcast chunks, also when        *)
(* another writer has made a match ready, or not ready, while the chunks    *)
(* were in flight.                                                          *)
C20_PaidEqualsIncluded ==
    pc = "done" => Paid = Included

(* ------------------------------ verify -------------------------------- *)
(* Amounts are whole DAI, in steps of AmountStep, so that the expected      *)
(* total of rinkeby can be met; the logs of the filter arrive in any order. *)
MaxLogs == 3        \* PayoutAdded logs
MaxRecipients == 2  \* recipients 1..MaxRecipients
MaxBlock == 2       \* block numbers 1..MaxBlock
MaxAmount == 2      \* amounts AmountStep * (1..MaxAmount)

AmountStep == 2500

(* line 95 *)
ExpectedTotal == IF network = "mainnet" THEN 100000 ELSE 5000

PayoutAddedLogs ==
    {[recipient |-> r, amount |-> AmountStep * a, blockNumber |-> b] :
        r \in 1..MaxRecipients, a \in 1..MaxAmount, b \in 1..MaxBlock}

LogSeqs == UNION {[1..n -> PayoutAddedLogs] : n \in 0..MaxLogs}

(* the logs as the filter returned them: no sorting *)
ArrivalOrder(logs) == logs

(* x put behind the logs of srt that are not in a later block *)
InsertByBlock(srt, x) ==
    LET k == Cardinality({i \in DOMAIN srt : srt[i].blockNumber <= x.blockNumber})
    IN  SubSeq(srt, 1, k) \o << x >> \o SubSeq(srt, k + 1, Len(srt))

(* line 370: sorted(..., key=blockNumber), a stable sort *)
RECURSIVE SortedByBlock(_)
SortedByBlock(logs) ==
    IF logs = << >> THEN << >>
    ELSE InsertByBlock(SortedByBlock(SubSeq(logs, 1, Len(logs) - 1)), Last(logs))

(* d[k] = v on a dict *)
DictPut(d, k, v) == [x \in DOMAIN d \cup {k} |-> IF x = k THEN v ELSE d[x]]

(* lines 381-393: the loop over the sorted logs from the i-th on *)
RECURSIVE ScanLogs(_, _, _, _)
ScanLogs(srt, i, pd, ubd) ==
    IF i > Len(srt)
    THEN [raised |-> FALSE, payment_dict |-> pd, user_block_dict |-> ubd]
    ELSE LET recipient == srt[i].recipient
             amount == srt[i].amount
             block == srt[i].blockNumber
         IN  IF recipient \in DOMAIN ubd /\ ubd[recipient] = block
             THEN [raised |-> TRUE, payment_dict |-> pd, user_block_dict |-> ubd]
             ELSE ScanLogs(srt, i + 1, DictPut(pd, recipient, amount),
                           DictPut(ubd, recipient, block))

(* line 396: sum(payment_dict[recipient] for recipient in payment_dict.keys()) *)
RECURSIVE SumOver(_, _)
SumOver(d, keys) ==
    IF keys = {} THEN 0
    ELSE LET k == CHOOSE k \in keys : TRUE
         IN  d[k] + SumOver(d, keys \ {k})

(* lines 365-393: fetch the logs, sort them, fill the two dicts *)
VerifyLogs ==
    /\ pc = "check_network"
    /\ what = "verify"
    /\ LET r == ScanLogs(SortedByBlock(payout_added_logs), 1, << >>, << >>)
       IN  /\ payment_dict' = r.payment_dict
           /\ user_block_dict' = r.user_block_dict
           /\ pc' = IF r.raised THEN "dup_raised" ELSE "summed"
    /\ UNCHANGED << payout_added_logs, total_dai_required >>

(* lines 396-409: the total and its comparison with the expected amount;   *)
(* the balance report that follows only prints                              *)
VerifyTotal ==
    /\ pc = "summed"
    /\ total_dai_required' = SumOver(payment_dict, DOMAIN payment_dict)
    /\ pc' = IF ExpectedTotal # total_dai_required' THEN "total_raised" ELSE "verified"
    /\ UNCHANGED << payout_added_logs, payment_dict, user_block_dict >>

(* everything of the payout branches *)
payoutVars == << what, network, answers, payout_tx, ready, writes,
                 full_payouts_mapping, chunk_i, payout_mapping, tx_args,
                 signed, tx_id, success, counter, err, txCount, chunk_no, hist, trace,
                 oracle_calls, contributions, built, accepted, mined >>

InitVerify ==
    /\ MainInit(0)
    /\ what = "verify"
    /\ network \in Networks
    /\ CkIdle
    /\ payout_added_logs \in LogSeqs
    /\ payment_dict = << >>
    /\ user_block_dict = << >>
    /\ total_dai_required = 0

NextVerify ==
    \/ (VerifyLogs /\ UNCHANGED << payoutVars, ckVars >>)
    \/ (VerifyTotal /\ UNCHANGED << payoutVars, ckVars >>)

SpecVerify == InitVerify /\ [][NextVerify]_vars

(* some recipient has two logs with the same block number *)
HasDuplicate ==
    \E i, j \in DOMAIN payout_added_logs :
        /\ i < j
        /\ payout_added_logs[i].recipient = payout_added_logs[j].recipient
        /\ payout_added_logs[i].blockNumber = payout_added_logs[j].blockNumber

LogRecipients == {payout_added_logs[i].recipient : i \in DOMAIN payout_added_logs}

(* the log of recipient r with the highest block number *)
LatestLog(r) ==
    payout_added_logs[
        CHOOSE i \in DOMAIN payout_added_logs :
            /\ payout_added_logs[i].recipient = r
            /\ \A j \in DOMAIN payout_added_logs :
                  payout_added_logs[j].recipient = r =>
                      payout_added_logs[j].blockNumber <= payout_added_logs[i].blockNumber]

RECURSIVE LatestTotal(_)
LatestTotal(r) ==
    IF r = 0 THEN 0
    ELSE (IF r \in LogRecipients THEN LatestLog(r).amount ELSE 0) + LatestTotal(r - 1)

KeptLatest ==
    /\ DOMAIN payment_dict = LogRecipients
    /\ DOMAIN user_block_dict = LogRecipients
    /\ \A r \in LogRecipients :
          /\ payment_dict[r] = LatestLog(r).amount
          /\ user_block_dict[r] = LatestLog(r).blockNumber

(* C21: in verify mode the run raises if and only if some recipient has two *)
(* logs with the same block number; otherwise the amount kept for each      *)
(* recipient is that of the recipient's log with the highest block number   *)
(* and the required total is the sum of the kept amounts.                   *)
C21_RaisesIffDuplicate ==
    /\ pc \in {"dup_raised", "total_raised", "verified"} =>
          (pc \in {"dup_raised", "total_raised"} <=> HasDuplicate)
    /\ pc = "verified" =>
          KeptLatest /\ total_dai_required = LatestTotal(MaxRecipients)

(* C21, amended: the loop over the logs raises if and only if some          *)
(* recipient has two logs with the same block number; otherwise the amount  *)
(* kept for each recipient is that of the recipient's log with the highest  *)
(* block number, the required total is the sum of the kept amounts, and the *)
(* run then raises if and only if that total differs from the amount        *)
(* expected for the network.                                                *)
C21_DuplicateOrTotalMismatch ==
    /\ pc # "check_network" => (pc = "dup_raised" <=> HasDuplicate)
    /\ pc \in {"summed", "total_raised", "verified"} => KeptLatest
    /\ pc \in {"total_raised", "verified"} =>
          /\ total_dai_required = LatestTotal(MaxRecipients)
          /\ pc = "total_raised" <=> total_dai_required # ExpectedTotal

(* three logs on rinkeby: the first recipient's log of block 2 arrived      *)
(* before its log of block 1; the amount of block 2 is kept and the total   *)
(* is the expected 5000                                                     *)
C21_Witness ==
    /\ pc = "verified"
    /\ network = "rinkeby"
    /\ Len(payout_added_logs) = 3
    /\ payout_added_logs[1].recipient = payout_added_logs[3].recipient
    /\ payout_added_logs[1].blockNumber > payout_added_logs[3].blockNumber
    /\ payout_added_logs[1].amount < payout_added_logs[3].amount
    /\ payment_dict[payout_added_logs[1].recipient] = payout_added_logs[1].amount
    /\ total_dai_required = 5000

====
